---------------------------- MODULE Spec2Model ----------------------------
(***************************************************************************)
(* A model of the Hy reader, src/hy/lex/parser.py: the identifier mangler  *)
(* and unmangler, the numeric/keyword classifier, the semantic actions of  *)
(* the grammar's productions and the LR parse loop that drives them.       *)
(*                                                                         *)
(* Text is a sequence of one-character strings, so that the string         *)
(* operations of the source (startswith, replace, split, slicing) are      *)
(* computed character by character.                                        *)
(***************************************************************************)
EXTENDS Integers, Sequences, FiniteSets, TLC

----------------------------------------------------------------------------
(* Bounds of the model.                                                    *)

\* the number of tokens the lexer hands to one parse
MaxTokens == 6

\* the number of fragments an identifier text is put together from
MaxFrags == 4

\* the number of items in the contents of a parenthesized form
MaxItems == 5

----------------------------------------------------------------------------
(* Text: characters and the string methods the source uses.                *)

LowerChars == <<"a", "b", "g", "i", "j", "n", "s">>

UpperChars == <<"A", "B", "G", "I", "J", "N", "S">>

DigitChars == <<"0", "1", "2", "3", "4", "5", "6", "7", "8", "9">>

IndexIn(c, seq) ==
    IF \E k \in 1..Len(seq) : seq[k] = c
    THEN CHOOSE k \in 1..Len(seq) : seq[k] = c
    ELSE 0

\* str.upper(), one character
UpperChar(c) ==
    IF IndexIn(c, LowerChars) > 0 THEN UpperChars[IndexIn(c, LowerChars)] ELSE c

\* str.lower(), one character
LowerChar(c) ==
    IF IndexIn(c, UpperChars) > 0 THEN LowerChars[IndexIn(c, UpperChars)] ELSE c

isalpha(c) == IndexIn(c, LowerChars) > 0 \/ IndexIn(c, UpperChars) > 0

isupper(c) == IndexIn(c, UpperChars) > 0

upper(p) == [k \in 1..Len(p) |-> UpperChar(p[k])]

lower(p) == [k \in 1..Len(p) |-> LowerChar(p[k])]

startswith(p, pre) ==
    Len(pre) <= Len(p) /\ SubSeq(p, 1, Len(pre)) = pre

endswith(p, suf) ==
    Len(suf) <= Len(p) /\ SubSeq(p, Len(p) - Len(suf) + 1, Len(p)) = suf

\* `c in p` for a one-character c
contains(p, c) == \E k \in 1..Len(p) : p[k] = c

\* p.replace(c, d) for one-character c and d
replace(p, c, d) == [k \in 1..Len(p) |-> IF p[k] = c THEN d ELSE p[k]]

\* p[a:] and p[:-b] of the source, as p[a : len(p) - b]
slice(p, a, b) == SubSeq(p, a + 1, Len(p) - b)

RECURSIVE split(_, _)
\* p.split(c): the segments of p between the occurrences of c
split(p, c) ==
    IF ~contains(p, c)
    THEN <<p>>
    ELSE LET k == CHOOSE i \in 1..Len(p) :
                      p[i] = c /\ \A j \in 1..(i - 1) : p[j] # c
         IN  <<SubSeq(p, 1, k - 1)>> \o split(SubSeq(p, k + 1, Len(p)), c)

\* p.split(c, 1): at most one split, at the first occurrence of c
split1(p, c) ==
    IF ~contains(p, c)
    THEN <<p>>
    ELSE LET k == CHOOSE i \in 1..Len(p) :
                      p[i] = c /\ \A j \in 1..(i - 1) : p[j] # c
         IN  <<SubSeq(p, 1, k - 1), SubSeq(p, k + 1, Len(p))>>

RECURSIVE join(_, _)
\* sep.join(parts)
join(sep, parts) ==
    IF Len(parts) = 0 THEN <<>>
    ELSE IF Len(parts) = 1 THEN parts[1]
    ELSE parts[1] \o sep \o join(sep, Tail(parts))

RECURSIVE Concat(_)
Concat(parts) ==
    IF Len(parts) = 0 THEN <<>> ELSE parts[1] \o Concat(Tail(parts))

----------------------------------------------------------------------------
(* The identifier mangler and unmangler.                                   *)

\* "*foo*" becomes "FOO"
mangle_earmuffs(p) ==
    IF startswith(p, <<"*">>) /\ endswith(p, <<"*">>)
       /\ p \notin {<<"*">>, <<"*", "*">>}
    THEN upper(slice(p, 1, 1))
    ELSE p

\* the mangler without its hyphen step
mangle_hyphens_skipped(p) == p

mangle_hyphens(p) ==
    IF contains(p, "-") /\ p # <<"-">> THEN replace(p, "-", "_") ELSE p

mangle_question(p) ==
    IF endswith(p, <<"?">>) /\ p # <<"?">>
    THEN <<"i", "s", "_">> \o slice(p, 0, 1)
    ELSE p

mangle_bang(p) ==
    IF endswith(p, <<"!">>) /\ p # <<"!">>
    THEN slice(p, 0, 1) \o <<"_", "b", "a", "n", "g">>
    ELSE p

hy_symbol_mangle(p) ==
    mangle_bang(mangle_question(mangle_hyphens(mangle_earmuffs(p))))

unmangle_bang(p) ==
    LET bang == <<"_", "b", "a", "n", "g">>
    IN  IF endswith(p, bang) /\ p # bang
        THEN slice(p, 0, Len(bang)) \o <<"!">>
        ELSE p

unmangle_question(p) ==
    LET is == <<"i", "s", "_">>
    IN  IF startswith(p, is) /\ p # is
        THEN slice(p, Len(is), 0) \o <<"?">>
        ELSE p

\* the unmangler without its hyphen step
unmangle_hyphens_skipped(p) == p

unmangle_hyphens(p) ==
    IF contains(p, "_") /\ p # <<"_">> THEN replace(p, "_", "-") ELSE p

unmangle_earmuffs(p) ==
    IF (\A k \in 1..Len(p) : (isalpha(p[k]) /\ isupper(p[k])) \/ p[k] = "_")
       /\ (\E k \in 1..Len(p) : isalpha(p[k]))
    THEN <<"*">> \o lower(p) \o <<"*">>
    ELSE p

hy_symbol_unmangle(p) ==
    unmangle_earmuffs(unmangle_hyphens(unmangle_question(unmangle_bang(p))))

----------------------------------------------------------------------------
(* Tokens, AST nodes and exceptions.  A handler returns Return(v) or       *)
(* Raise(e).  Every node carries the four span attributes, 0 until a       *)
(* boundary decorator sets them.  An exception's message is the sequence   *)
(* of the pieces it is formatted from.                                     *)

Token(type, value, lineno, colno) ==
    [type |-> type, value |-> value, lineno |-> lineno, colno |-> colno]

Return(v) == [raised |-> FALSE, value |-> v]

Raise(e) == [raised |-> TRUE, value |-> e]

LexException(message, lineno, colno) ==
    [exc |-> "LexException", message |-> message,
     lineno |-> lineno, colno |-> colno]

PrematureEndOfInput(message) ==
    [exc |-> "PrematureEndOfInput", message |-> message,
     lineno |-> 0, colno |-> 0]

None == [kind |-> "None"]

HySymbol(name) ==
    [kind |-> "Symbol", name |-> name,
     start_line |-> 0, start_column |-> 0, end_line |-> 0, end_column |-> 0]

HyKeyword(obj) ==
    [kind |-> "Keyword", name |-> Tail(obj),
     start_line |-> 0, start_column |-> 0, end_line |-> 0, end_column |-> 0]

\* the brackets attribute of a string: None, or the delimiter of a bracket string
NoBrackets == [given |-> FALSE, delim |-> <<>>]

Brackets(delim) == [given |-> TRUE, delim |-> delim]

HyString(text, brackets) ==
    [kind |-> "String", text |-> text, brackets |-> brackets,
     start_line |-> 0, start_column |-> 0, end_line |-> 0, end_column |-> 0]

HyBytes(text) ==
    [kind |-> "Bytes", text |-> text,
     start_line |-> 0, start_column |-> 0, end_line |-> 0, end_column |-> 0]

HyExpression(items) ==
    [kind |-> "Expression", items |-> items,
     start_line |-> 0, start_column |-> 0, end_line |-> 0, end_column |-> 0]

HyList(items) ==
    [kind |-> "List", items |-> items,
     start_line |-> 0, start_column |-> 0, end_line |-> 0, end_column |-> 0]

HyDict(items) ==
    [kind |-> "Dict", items |-> items,
     start_line |-> 0, start_column |-> 0, end_line |-> 0, end_column |-> 0]

HySet(items) ==
    [kind |-> "Set", items |-> items,
     start_line |-> 0, start_column |-> 0, end_line |-> 0, end_column |-> 0]

HyCons(car, cdr) ==
    [kind |-> "Cons", car |-> car, cdr |-> cdr,
     start_line |-> 0, start_column |-> 0, end_line |-> 0, end_column |-> 0]

----------------------------------------------------------------------------
(* Numeric literals.  HyInteger, HyFloat and HyComplex hand the text to    *)
(* the host's int, float and complex and raise ValueError when it is no    *)
(* literal.  The recognisers below are the host's literal syntax over      *)
(* signs, decimal digits, "." and "j" (no exponent, no base prefix, no     *)
(* digit separator, no inf or nan: the texts of the model hold none).      *)

IsSign(c) == c \in {"+", "-"}

IsDigit(c) == IndexIn(c, DigitChars) > 0

AllDigits(s) == Len(s) > 0 /\ \A k \in 1..Len(s) : IsDigit(s[k])

Unsigned(s) == IF Len(s) > 0 /\ IsSign(s[1]) THEN Tail(s) ELSE s

\* int(s) succeeds
IsIntegerText(s) == AllDigits(Unsigned(s))

RECURSIVE DigitsValue(_)
DigitsValue(s) ==
    IF Len(s) = 0 THEN 0
    ELSE 10 * DigitsValue(SubSeq(s, 1, Len(s) - 1))
         + (IndexIn(s[Len(s)], DigitChars) - 1)

\* int(s)
IntegerValue(s) ==
    IF Len(s) > 0 /\ s[1] = "-" THEN 0 - DigitsValue(Tail(s))
    ELSE DigitsValue(Unsigned(s))

\* float(s) succeeds: [sign] digits [. [digits]]  or  [sign] . digits
IsFloatText(s) ==
    LET u == Unsigned(s)
    IN  \/ AllDigits(u)
        \/ /\ Cardinality({k \in 1..Len(u) : u[k] = "."}) = 1
           /\ LET parts == split1(u, ".")
              IN  /\ Len(parts[1]) + Len(parts[2]) > 0
                  /\ \A k \in 1..Len(parts[1]) : IsDigit(parts[1][k])
                  /\ \A k \in 1..Len(parts[2]) : IsDigit(parts[2][k])

\* the length of the number the host's strtod reads off the front of s
FloatPrefixLen(s) ==
    LET ks == {k \in 1..Len(s) : IsFloatText(SubSeq(s, 1, k))}
    IN  IF ks = {} THEN 0 ELSE CHOOSE k \in ks : \A j \in ks : j <= k

\* the imaginary part after a real one: sign, then "j" with or without a
\* number of m characters before it
IsImaginaryTail(rest, m) ==
    IF m > 0 THEN SubSeq(rest, m + 1, Len(rest)) = <<"j">>
    ELSE Tail(rest) = <<"j">>

\* what may follow a number of n characters at the front of s
IsComplexRest(s, n, rest) ==
    IF n > 0
    THEN \/ rest = <<>>
         \/ rest = <<"j">>
         \/ /\ Len(rest) > 0 /\ IsSign(rest[1])
            /\ IsImaginaryTail(rest, FloatPrefixLen(rest))
    ELSE Unsigned(s) = <<"j">>

\* complex(s) succeeds: a real part, an imaginary part ending in "j", or both
IsComplexText(s) ==
    IsComplexRest(s, FloatPrefixLen(s),
                  SubSeq(s, FloatPrefixLen(s) + 1, Len(s)))

HyInteger(obj) ==
    [kind |-> "Integer", value |-> IntegerValue(obj),
     start_line |-> 0, start_column |-> 0, end_line |-> 0, end_column |-> 0]

HyFloat(obj) ==
    [kind |-> "Float", literal |-> obj,
     start_line |-> 0, start_column |-> 0, end_line |-> 0, end_column |-> 0]

HyComplex(obj) ==
    [kind |-> "Complex", literal |-> obj,
     start_line |-> 0, start_column |-> 0, end_line |-> 0, end_column |-> 0]

----------------------------------------------------------------------------
(* The numeric/keyword classifier and the identifier production.           *)

\* Try to interpret obj as a number or keyword; None when it is neither.
symbol_like(obj) ==
    IF IsIntegerText(obj) THEN HyInteger(obj)
    ELSE IF /\ contains(obj, "/")
            /\ Len(split(obj, "/")) = 2
            /\ IsIntegerText(split(obj, "/")[1])
            /\ IsIntegerText(split(obj, "/")[2])
         THEN HyExpression(<<HySymbol(<<"f", "r", "a", "c", "t", "i", "o", "n">>),
                             HyInteger(split(obj, "/")[1]),
                             HyInteger(split(obj, "/")[2])>>)
    ELSE IF IsFloatText(obj) THEN HyFloat(obj)
    ELSE IF obj # <<"j">> /\ IsComplexText(obj) THEN HyComplex(obj)
    ELSE IF startswith(obj, <<":">>) /\ ~contains(obj, ".") THEN HyKeyword(obj)
    ELSE None

\* the decorator set_boundaries, applied to the result ret of fun(p)
set_boundaries(p, ret) ==
    IF ret.raised THEN ret
    ELSE LET start == p[1]
             end == p[Len(p)]
         IN  Return([ret.value EXCEPT
                 !.start_line = start.lineno,
                 !.start_column = start.colno,
                 !.end_line = IF Len(p) > 1 THEN end.lineno ELSE start.lineno,
                 !.end_column = IF Len(p) > 1 THEN end.colno
                                ELSE start.colno + Len(p[1].value)])

MangleEach(segs) == [k \in 1..Len(segs) |-> hy_symbol_mangle(segs[k])]

\* t_identifier without the check of the text before the first "."
identifier_value_unchecked(p, obj, val) ==
    IF val # None THEN Return(val)
    ELSE Return(HySymbol(join(<<".">>, MangleEach(split(obj, ".")))))

\* t_identifier after its first call of symbol_like has returned val
identifier_value(p, obj, val) ==
    IF val # None THEN Return(val)
    ELSE IF contains(obj, ".") /\ symbol_like(split1(obj, ".")[1]) # None
         THEN Raise(LexException(<<"Cannot access attribute on anything other than a name">>,
                                 p[1].lineno, p[1].colno))
    ELSE Return(HySymbol(join(<<".">>, MangleEach(split(obj, ".")))))

t_identifier(p) ==
    set_boundaries(p, identifier_value(p, p[1].value, symbol_like(p[1].value)))

----------------------------------------------------------------------------
(* The semantic actions of the productions.  p is the sequence of the      *)
(* values of the production's right-hand side, p[1] the first.             *)

\* the decorator set_quote_boundaries, applied to the result ret of fun(p)
set_quote_boundaries(p, ret) ==
    IF ret.raised THEN ret
    ELSE LET start == p[1]
         IN  Return([ret.value EXCEPT
                 !.start_line = start.lineno,
                 !.start_column = start.colno,
                 !.end_line = p[Len(p)].end_line,
                 !.end_column = p[Len(p)].end_column])

main(p) == Return(p[1])

main_empty(p) == Return(<<>>)

\* tok == "." and type(tok) == HySymbol
IsBareDot(tok) == tok.kind = "Symbol" /\ tok.name = <<".">>

\* Reject the spurious dots from items, a sequence of lists
reject_spurious_dots(items) ==
    LET toks == Concat(items)
        dots == {k \in 1..Len(toks) : IsBareDot(toks[k])}
    IN  IF dots = {} THEN Return(None)
        ELSE LET k == CHOOSE i \in dots : \A j \in dots : i <= j
             IN  Raise(LexException(<<"Malformed dotted list">>,
                                    toks[k].start_line, toks[k].start_column))

\* paren building one cell of the first and the last item of a dotted list
paren_one_cell(p) ==
    LET cont == p[2]
        n == Len(cont)
    IN  set_boundaries(p,
            IF n >= 3 /\ IsBareDot(cont[n - 1])
            THEN LET chk == reject_spurious_dots(
                                <<SubSeq(cont, 1, n - 2), SubSeq(cont, n, n)>>)
                 IN  IF chk.raised THEN chk
                     ELSE Return(HyCons(cont[1], cont[n]))
            ELSE LET chk == reject_spurious_dots(<<slice(cont, 1, 0)>>)
                 IN  IF chk.raised THEN chk
                     ELSE Return(HyExpression(p[2])))

RECURSIVE paren_first_unchecked(_)
\* paren sparing the first item of a dotted list the check for dots
paren_first_unchecked(p) ==
    LET cont == p[2]
        n == Len(cont)
    IN  set_boundaries(p,
            IF n >= 3 /\ IsBareDot(cont[n - 1])
            THEN LET chk == reject_spurious_dots(
                                <<SubSeq(cont, 2, n - 2), SubSeq(cont, n, n)>>)
                 IN  IF chk.raised THEN chk
                     ELSE IF n = 3
                          THEN Return(HyCons(cont[1], cont[3]))
                          ELSE LET rest == paren_first_unchecked(
                                               <<p[1], slice(cont, 1, 0), p[3]>>)
                               IN  IF rest.raised THEN rest
                                   ELSE Return(HyCons(cont[1], rest.value))
            ELSE LET chk == reject_spurious_dots(<<slice(cont, 1, 0)>>)
                 IN  IF chk.raised THEN chk
                     ELSE Return(HyExpression(p[2])))

RECURSIVE paren(_)
paren(p) ==
    LET cont == p[2]
        n == Len(cont)
    IN  set_boundaries(p,
            IF n >= 3 /\ IsBareDot(cont[n - 1])
            THEN LET chk == reject_spurious_dots(
                                <<SubSeq(cont, 1, n - 2), SubSeq(cont, n, n)>>)
                 IN  IF chk.raised THEN chk
                     ELSE IF n = 3
                          THEN Return(HyCons(cont[1], cont[3]))
                          ELSE LET rest == paren(<<p[1], slice(cont, 1, 0), p[3]>>)
                               IN  IF rest.raised THEN rest
                                   ELSE Return(HyCons(cont[1], rest.value))
            ELSE LET chk == reject_spurious_dots(<<slice(cont, 1, 0)>>)
                 IN  IF chk.raised THEN chk
                     ELSE Return(HyExpression(p[2])))

empty_paren(p) == set_boundaries(p, Return(HyExpression(<<>>)))

list_contents(p) == Return(<<p[1]>> \o p[2])

list_contents_single(p) == Return(<<p[1]>>)

list_contents_empty(p) == Return(<<>>)

discarded_list_contents(p) == Return(None)

term(p) == Return(p[1])

\* term_discard returning the term after the marker
term_discard_first(p) == Return(p[2])

term_discard(p) == Return(p[3])

term_quote(p) ==
    set_quote_boundaries(p,
        Return(HyExpression(<<HySymbol(<<"q", "u", "o", "t", "e">>), p[2]>>)))

term_quasiquote(p) ==
    set_quote_boundaries(p,
        Return(HyExpression(
            <<HySymbol(<<"q", "u", "a", "s", "i", "q", "u", "o", "t", "e">>),
              p[2]>>)))

term_unquote(p) ==
    set_quote_boundaries(p,
        Return(HyExpression(
            <<HySymbol(<<"u", "n", "q", "u", "o", "t", "e">>), p[2]>>)))

term_unquote_splice(p) ==
    set_quote_boundaries(p,
        Return(HyExpression(
            <<HySymbol(<<"u", "n", "q", "u", "o", "t", "e", "_",
                         "s", "p", "l", "i", "c", "e">>), p[2]>>)))

unpack_iterable ==
    <<"u", "n", "p", "a", "c", "k", "_", "i", "t", "e", "r", "a", "b", "l", "e">>

unpack_mapping ==
    <<"u", "n", "p", "a", "c", "k", "_", "m", "a", "p", "p", "i", "n", "g">>

\* term_hashstars taking every marker of more than one star for two
term_hashstars_lenient(p) ==
    LET n_stars == Len(Tail(p[1].value))
    IN  set_quote_boundaries(p,
            IF n_stars = 1
            THEN Return(HyExpression(<<HySymbol(unpack_iterable), p[2]>>))
            ELSE Return(HyExpression(<<HySymbol(unpack_mapping), p[2]>>)))

term_hashstars(p) ==
    LET n_stars == Len(Tail(p[1].value))
    IN  set_quote_boundaries(p,
            IF n_stars = 1
            THEN Return(HyExpression(<<HySymbol(unpack_iterable), p[2]>>))
            ELSE IF n_stars = 2
            THEN Return(HyExpression(<<HySymbol(unpack_mapping), p[2]>>))
            ELSE Raise(LexException(<<"Too many stars in #* construct">>,
                                    p[1].lineno, p[1].colno)))

hash_other(p) ==
    LET st == Tail(p[1].value)
        str_object == HyString(st, NoBrackets)
        expr == p[2]
    IN  set_quote_boundaries(p,
            Return(HyExpression(
                <<HySymbol(<<"d", "i", "s", "p", "a", "t", "c", "h", "_",
                             "t", "a", "g", "_", "m", "a", "c", "r", "o">>),
                  str_object, expr>>)))

t_set(p) == set_boundaries(p, Return(HySet(p[2])))

empty_set(p) == set_boundaries(p, Return(HySet(<<>>)))

t_dict(p) == set_boundaries(p, Return(HyDict(p[2])))

empty_dict(p) == set_boundaries(p, Return(HyDict(<<>>)))

t_list(p) == set_boundaries(p, Return(HyList(p[2])))

t_empty_list(p) == set_boundaries(p, Return(HyList(<<>>)))

\* The literal is evaluated by the host: the text between the opening quote
\* and the closing one (the texts of the model hold no escape sequence), bytes
\* when the prefix before the opening quote has a "b".
t_string(p) ==
    LET v == p[1].value
        k == IndexIn("\"", v)
        prefix == SubSeq(v, 1, k - 1)
        s == SubSeq(v, k + 1, Len(v) - 1)
    IN  set_boundaries(p,
            Return(IF contains(prefix, "b") THEN HyBytes(s)
                   ELSE HyString(s, NoBrackets)))

\* t_partial_string taking the unterminated text for a string
t_partial_string_closed(p) ==
    set_boundaries(p, Return(HyString(Tail(p[1].value), NoBrackets)))

\* Any unterminated string requires more input
t_partial_string(p) == Raise(PrematureEndOfInput(<<"Premature end of input">>))

\* bracket_string_re: #[delim[content]delim]
t_bracket_string(p) ==
    LET v == p[1].value
        after == SubSeq(v, 3, Len(v))
        delim == split1(after, "[")[1]
        content == SubSeq(v, 3 + Len(delim) + 1, Len(v) - Len(delim) - 2)
    IN  set_boundaries(p, Return(HyString(content, Brackets(delim))))

\* error_handler with line and column exchanged
error_handler_swapped(token) ==
    LET tokentype == token.type
    IN  IF tokentype = "$end"
        THEN Raise(PrematureEndOfInput(<<"Premature end of input">>))
        ELSE Raise(LexException(
                 <<"Ran into a ", tokentype, " where it wasn't expected.">>,
                 token.colno, token.lineno))

\* error_handler without the case of the end of the stream
error_handler_no_end(token) ==
    Raise(LexException(
        <<"Ran into a ", token.type, " where it wasn't expected.">>,
        token.lineno, token.colno))

error_handler(token) ==
    LET tokentype == token.type
    IN  IF tokentype = "$end"
        THEN Raise(PrematureEndOfInput(<<"Premature end of input">>))
        ELSE Raise(LexException(
                 <<"Ran into a ", tokentype, " where it wasn't expected.">>,
                 token.lineno, token.colno))

----------------------------------------------------------------------------
(* The grammar: one entry per pg.production decorator, fn the function it  *)
(* decorates.  Entry 1 is the start production the generator adds.         *)

Productions == <<
    [lhs |-> "S'", rhs |-> <<"main">>, fn |-> "accept"],
    [lhs |-> "main", rhs |-> <<"list_contents">>, fn |-> "main"],
    [lhs |-> "main", rhs |-> <<"$end">>, fn |-> "main_empty"],
    [lhs |-> "paren", rhs |-> <<"LPAREN", "list_contents", "RPAREN">>,
     fn |-> "paren"],
    [lhs |-> "paren", rhs |-> <<"LPAREN", "RPAREN">>, fn |-> "empty_paren"],
    [lhs |-> "list_contents", rhs |-> <<"term", "list_contents">>,
     fn |-> "list_contents"],
    [lhs |-> "list_contents", rhs |-> <<"term">>,
     fn |-> "list_contents_single"],
    [lhs |-> "list_contents",
     rhs |-> <<"DISCARD", "term", "discarded_list_contents">>,
     fn |-> "list_contents_empty"],
    [lhs |-> "discarded_list_contents",
     rhs |-> <<"DISCARD", "term", "discarded_list_contents">>,
     fn |-> "discarded_list_contents"],
    [lhs |-> "discarded_list_contents", rhs |-> <<>>,
     fn |-> "discarded_list_contents"],
    [lhs |-> "term", rhs |-> <<"identifier">>, fn |-> "term"],
    [lhs |-> "term", rhs |-> <<"paren">>, fn |-> "term"],
    [lhs |-> "term", rhs |-> <<"dict">>, fn |-> "term"],
    [lhs |-> "term", rhs |-> <<"list">>, fn |-> "term"],
    [lhs |-> "term", rhs |-> <<"set">>, fn |-> "term"],
    [lhs |-> "term", rhs |-> <<"string">>, fn |-> "term"],
    [lhs |-> "term", rhs |-> <<"DISCARD", "term", "term">>,
     fn |-> "term_discard"],
    [lhs |-> "term", rhs |-> <<"QUOTE", "term">>, fn |-> "term_quote"],
    [lhs |-> "term", rhs |-> <<"QUASIQUOTE", "term">>,
     fn |-> "term_quasiquote"],
    [lhs |-> "term", rhs |-> <<"UNQUOTE", "term">>, fn |-> "term_unquote"],
    [lhs |-> "term", rhs |-> <<"UNQUOTESPLICE", "term">>,
     fn |-> "term_unquote_splice"],
    [lhs |-> "term", rhs |-> <<"HASHSTARS", "term">>, fn |-> "term_hashstars"],
    [lhs |-> "term", rhs |-> <<"HASHOTHER", "term">>, fn |-> "hash_other"],
    [lhs |-> "set", rhs |-> <<"HLCURLY", "list_contents", "RCURLY">>,
     fn |-> "t_set"],
    [lhs |-> "set", rhs |-> <<"HLCURLY", "RCURLY">>, fn |-> "empty_set"],
    [lhs |-> "dict", rhs |-> <<"LCURLY", "list_contents", "RCURLY">>,
     fn |-> "t_dict"],
    [lhs |-> "dict", rhs |-> <<"LCURLY", "RCURLY">>, fn |-> "empty_dict"],
    [lhs |-> "list", rhs |-> <<"LBRACKET", "list_contents", "RBRACKET">>,
     fn |-> "t_list"],
    [lhs |-> "list", rhs |-> <<"LBRACKET", "RBRACKET">>, fn |-> "t_empty_list"],
    [lhs |-> "string", rhs |-> <<"STRING">>, fn |-> "t_string"],
    [lhs |-> "string", rhs |-> <<"PARTIAL_STRING">>, fn |-> "t_partial_string"],
    [lhs |-> "string", rhs |-> <<"BRACKETSTRING">>, fn |-> "t_bracket_string"],
    [lhs |-> "identifier", rhs |-> <<"IDENTIFIER">>, fn |-> "t_identifier"] >>

\* the function a production is registered with, applied to p
Apply(fn, p) ==
    CASE fn = "main" -> main(p)
      [] fn = "main_empty" -> main_empty(p)
      [] fn = "paren" -> paren(p)
      [] fn = "empty_paren" -> empty_paren(p)
      [] fn = "list_contents" -> list_contents(p)
      [] fn = "list_contents_single" -> list_contents_single(p)
      [] fn = "list_contents_empty" -> list_contents_empty(p)
      [] fn = "discarded_list_contents" -> discarded_list_contents(p)
      [] fn = "term" -> term(p)
      [] fn = "term_discard" -> term_discard(p)
      [] fn = "term_quote" -> term_quote(p)
      [] fn = "term_quasiquote" -> term_quasiquote(p)
      [] fn = "term_unquote" -> term_unquote(p)
      [] fn = "term_unquote_splice" -> term_unquote_splice(p)
      [] fn = "term_hashstars" -> term_hashstars(p)
      [] fn = "hash_other" -> hash_other(p)
      [] fn = "t_set" -> t_set(p)
      [] fn = "empty_set" -> empty_set(p)
      [] fn = "t_dict" -> t_dict(p)
      [] fn = "empty_dict" -> empty_dict(p)
      [] fn = "t_list" -> t_list(p)
      [] fn = "t_empty_list" -> t_empty_list(p)
      [] fn = "t_string" -> t_string(p)
      [] fn = "t_partial_string" -> t_partial_string(p)
      [] fn = "t_bracket_string" -> t_bracket_string(p)
      [] fn = "t_identifier" -> t_identifier(p)

----------------------------------------------------------------------------
(* pg.build(): the LR tables of the grammar.  States are sets of LR(0)     *)
(* items, numbered in the order they are found; a reduction is entered on  *)
(* the tokens that can follow its left-hand side, which for this grammar   *)
(* are the lookahead sets the generator computes (the grammar has no       *)
(* conflict, and each state that reduces on a lookahead is reached in      *)
(* every context its left-hand side occurs in).                            *)

ProdIds == 1..Len(Productions)

NonTerminals == {Productions[q].lhs : q \in ProdIds}

GrammarSymbols ==
    NonTerminals \cup
    UNION {{Productions[q].rhs[k] : k \in 1..Len(Productions[q].rhs)} :
               q \in ProdIds}

Terminals == GrammarSymbols \ NonTerminals

Item(q, d) == [q |-> q, d |-> d]

\* the symbol after the dot of an item, "" when the dot is at the end
AfterDot(it) ==
    IF it.d < Len(Productions[it.q].rhs)
    THEN Productions[it.q].rhs[it.d + 1]
    ELSE ""

RECURSIVE Closure(_)
Closure(I) ==
    LET J == I \cup {Item(q, 0) : q \in
                        {r \in ProdIds :
                            \E it \in I : AfterDot(it) = Productions[r].lhs}}
    IN  IF J = I THEN I ELSE Closure(J)

Goto(I, X) ==
    Closure({Item(it.q, it.d + 1) : it \in {jt \in I : AfterDot(jt) = X}})

RECURSIVE SetToSeq(_)
SetToSeq(S) ==
    IF S = {} THEN <<>>
    ELSE LET x == CHOOSE y \in S : TRUE IN <<x>> \o SetToSeq(S \ {x})

RECURSIVE Explore(_, _)
Explore(found, k) ==
    IF k > Len(found) THEN found
    ELSE LET next == {Goto(found[k], X) : X \in GrammarSymbols}
             new == next \ ({{}} \cup {found[j] : j \in 1..Len(found)})
         IN  Explore(found \o SetToSeq(new), k + 1)

\* the LR(0) item sets, lr_states[1] the start state
lr_states == Explore(<<Closure({Item(1, 0)})>>, 1)

StateNumber(states, I) ==
    IF I = {} THEN 0 ELSE CHOOSE s \in 1..Len(states) : states[s] = I

RECURSIVE NullableFix(_)
NullableFix(N) ==
    LET M == N \cup {Productions[q].lhs : q \in
                        {r \in ProdIds :
                            \A k \in 1..Len(Productions[r].rhs) :
                                Productions[r].rhs[k] \in N}}
    IN  IF M = N THEN N ELSE NullableFix(M)

Nullable == NullableFix({})

\* the terminals a sequence of symbols can start with, given those of each
\* nonterminal
FirstOfSeq(F, syms) ==
    UNION {IF syms[k] \in NonTerminals THEN F[syms[k]] ELSE {syms[k]} :
               k \in {i \in 1..Len(syms) :
                          \A j \in 1..(i - 1) : syms[j] \in Nullable}}

RECURSIVE FirstFix(_)
FirstFix(F) ==
    LET G == [n \in NonTerminals |->
                 F[n] \cup UNION {FirstOfSeq(F, Productions[q].rhs) :
                                     q \in {r \in ProdIds :
                                                Productions[r].lhs = n}}]
    IN  IF G = F THEN F ELSE FirstFix(G)

First == FirstFix([n \in NonTerminals |-> {}])

RECURSIVE FollowFix(_)
FollowFix(F) ==
    LET G == [n \in NonTerminals |->
                 F[n] \cup UNION {
                     LET rhs == Productions[occ[1]].rhs
                         after == SubSeq(rhs, occ[2] + 1, Len(rhs))
                     IN  FirstOfSeq(First, after) \cup
                         (IF \A k \in 1..Len(after) : after[k] \in Nullable
                          THEN F[Productions[occ[1]].lhs] ELSE {}) :
                     occ \in {o \in ProdIds \X (1..3) :
                                 /\ o[2] <= Len(Productions[o[1]].rhs)
                                 /\ Productions[o[1]].rhs[o[2]] = n}}]
    IN  IF G = F THEN F ELSE FollowFix(G)

Follow ==
    FollowFix([n \in NonTerminals |-> IF n = "S'" THEN {"$end"} ELSE {}])

\* goto[s][X]: the state entered from s on symbol X, 0 when there is none
GotoTable(states) ==
    [s \in 1..Len(states) |-> [X \in GrammarSymbols |->
        StateNumber(states, Goto(states[s], X))]]

\* the production the item set I reduces by on token t, 0 when it does not
ReduceOn(I, follow, t) ==
    LET qs == {q \in ProdIds :
                  /\ Item(q, Len(Productions[q].rhs)) \in I
                  /\ t \in follow[Productions[q].lhs]}
    IN  IF qs = {} THEN 0 ELSE CHOOSE q \in qs : TRUE

\* action[s][t]: n > 0 shifts to state n, n < 0 reduces by production -n
\* (-1 accepts), 0 is an error
ActionTable(states, goto, follow) ==
    [s \in 1..Len(states) |-> [t \in Terminals |->
        IF \E it \in states[s] : AfterDot(it) = t
        THEN goto[s][t]
        ELSE 0 - ReduceOn(states[s], follow, t)]]

\* defaults[s]: the one reduction of a state whose every action is that
\* reduction, 0 for the other states
DefaultReductions(action) ==
    [s \in DOMAIN action |->
        LET acts == {action[s][t] : t \in Terminals} \ {0}
        IN  IF Cardinality(acts) = 1 /\ (\A a \in acts : a < -1)
            THEN 0 - (CHOOSE a \in acts : TRUE)
            ELSE 0]

\* pg.build(): the tables of the generated parser
pg_build ==
    LET states == lr_states
        goto == GotoTable(states)
        action == ActionTable(states, goto, Follow)
    IN  [lr_goto |-> goto,
         lr_action |-> action,
         default_reductions |-> DefaultReductions(action)]

----------------------------------------------------------------------------
(* The state.  parser holds the tables of the generated parser, tokens     *)
(* the tokens the lexer has handed over so far, exhausted whether it has   *)
(* reported the end of the stream, vocabulary                              *)
(* the token kinds this input is written in; lookahead, symstack,          *)
(* statestack are the parse loop's locals, status and result how the call  *)
(* ended.  input, output and phase belong to the specifications that run   *)
(* one function on its own.                                                *)

VARIABLES parser, tokens, exhausted, vocabulary, lookahead, symstack,
          statestack, status, result, last, input, output, phase

----------------------------------------------------------------------------
(* The parse loop of the generated parser.  A configuration holds the      *)
(* loop's locals; last records the latest production function called, its  *)
(* arguments and what it returned or raised.                               *)

EndToken == Token("$end", <<"$end">>, 0, 0)

NoCall == [fn |-> "", p |-> <<>>, ret |-> Return(None)]

InitConfig ==
    [lookahead |-> None,
     symstack |-> <<EndToken>>,
     statestack |-> <<1>>,
     status |-> "parsing",
     result |-> None,
     last |-> NoCall]

current_state(c) == c.statestack[Len(c.statestack)]

\* what the loop does next: a reduction, reading the lexer, a shift, the
\* return of the result, or the error handler
NextOp(c) ==
    LET state == current_state(c)
    IN  IF parser.default_reductions[state] # 0
        THEN [op |-> "reduce", q |-> parser.default_reductions[state]]
        ELSE IF c.lookahead = None
        THEN [op |-> "fetch", q |-> 0]
        ELSE LET t == parser.lr_action[state][c.lookahead.type]
             IN  IF t > 0 THEN [op |-> "shift", q |-> t]
                 ELSE IF t < -1 THEN [op |-> "reduce", q |-> 0 - t]
                 ELSE IF t = -1 THEN [op |-> "accept", q |-> 0]
                 ELSE [op |-> "error", q |-> 0]

fetch(c, token) == [c EXCEPT !.lookahead = token]

shift(c, t) ==
    [c EXCEPT !.statestack = Append(@, t),
              !.symstack = Append(@, c.lookahead),
              !.lookahead = None]

\* the rest of a reduction by prod, once its function has been called on
\* the popped values targ and has returned or raised ret
reduced(c, prod, targ, syms, states, ret) ==
    IF ret.raised
    THEN [c EXCEPT !.symstack = syms, !.statestack = states,
                   !.status = "raised", !.result = ret.value,
                   !.last = [fn |-> prod.fn, p |-> targ, ret |-> ret]]
    ELSE [c EXCEPT !.symstack = Append(syms, ret.value),
                   !.statestack =
                       Append(states,
                              parser.lr_goto[states[Len(states)]][prod.lhs]),
                   !.last = [fn |-> prod.fn, p |-> targ, ret |-> ret]]

\* the values the stacks lose to a production of plen symbols
popped(c, prod, plen, n) ==
    reduced(c, prod, SubSeq(c.symstack, n - plen + 1, n),
            SubSeq(c.symstack, 1, n - plen),
            SubSeq(c.statestack, 1, n - plen),
            Apply(prod.fn, SubSeq(c.symstack, n - plen + 1, n)))

\* reduce a symbol on the stack and emit a production
reduce_production(c, q) ==
    popped(c, Productions[q], Len(Productions[q].rhs), Len(c.symstack))

accept(c) ==
    [c EXCEPT !.status = "returned", !.result = c.symstack[Len(c.symstack)]]

error(c) ==
    [c EXCEPT !.status = "raised", !.result = error_handler(c.lookahead).value]

RECURSIVE Run(_, _)
\* the loop run to its end on the tokens rest, then the end of the stream
Run(c, rest) ==
    IF c.status # "parsing" THEN c
    ELSE LET o == NextOp(c)
         IN  CASE o.op = "reduce" -> Run(reduce_production(c, o.q), rest)
               [] o.op = "fetch" ->
                    IF Len(rest) = 0
                    THEN Run(fetch(c, EndToken), rest)
                    ELSE Run(fetch(c, Head(rest)), Tail(rest))
               [] o.op = "shift" -> Run(shift(c, o.q), rest)
               [] o.op = "accept" -> accept(c)
               [] o.op = "error" -> error(c)

\* parser.parse(tokens)
parse(toks) == Run(InitConfig, toks)

----------------------------------------------------------------------------
vars == <<parser, tokens, exhausted, vocabulary, lookahead, symstack,
          statestack, status, result, last, input, output, phase>>

parservars == <<parser, tokens, exhausted, vocabulary, lookahead, symstack,
                statestack, status, result, last>>

funvars == <<input, output, phase>>

\* the parser at rest, for the specifications that do not run it
ParserIdle ==
    /\ parser = pg_build
    /\ tokens = <<>>
    /\ exhausted = FALSE
    /\ vocabulary = {}
    /\ lookahead = None
    /\ symstack = <<>>
    /\ statestack = <<>>
    /\ status = "idle"
    /\ result = None
    /\ last = NoCall

FunIdle ==
    /\ input = None
    /\ output = None
    /\ phase = "idle"

----------------------------------------------------------------------------
(* The lexer's tokens.  An input is written in the core kinds and the      *)
(* kinds of one more group.  "BACKQUOTE" stands for the one character of   *)
(* the quasiquote marker, which a string of this module cannot hold.       *)

Kind(type, value) == [type |-> type, value |-> value]

CoreKinds ==
    {Kind("IDENTIFIER", <<"a">>), Kind("LPAREN", <<"(">>),
     Kind("RPAREN", <<")">>)}

KindGroups ==
    {{Kind("DISCARD", <<"#", "_">>)},
     {Kind("IDENTIFIER", <<".">>)},
     {Kind("IDENTIFIER", <<"5", ".", "a">>)},
     {Kind("LBRACKET", <<"[">>), Kind("RBRACKET", <<"]">>)},
     {Kind("LCURLY", <<"{">>), Kind("RCURLY", <<"}">>)},
     {Kind("HLCURLY", <<"#", "{">>), Kind("RCURLY", <<"}">>)},
     {Kind("QUOTE", <<"'">>)},
     {Kind("QUASIQUOTE", <<"BACKQUOTE">>)},
     {Kind("UNQUOTE", <<"~">>)},
     {Kind("UNQUOTESPLICE", <<"~", "@">>)},
     {Kind("HASHSTARS", <<"#", "*">>)},
     {Kind("HASHSTARS", <<"#", "*", "*">>)},
     {Kind("HASHSTARS", <<"#", "*", "*", "*">>)},
     {Kind("HASHOTHER", <<"#", "a">>)},
     {Kind("STRING", <<"\"", "a", "\"">>)},
     {Kind("STRING", <<"b", "\"", "a", "\"">>)},
     {Kind("PARTIAL_STRING", <<"\"", "a">>)},
     {Kind("BRACKETSTRING", <<"#", "[", "[", "a", "]", "]">>)}}

cfg ==
    [lookahead |-> lookahead, symstack |-> symstack,
     statestack |-> statestack, status |-> status, result |-> result,
     last |-> last]

Become(c) ==
    /\ lookahead' = c.lookahead
    /\ symstack' = c.symstack
    /\ statestack' = c.statestack
    /\ status' = c.status
    /\ result' = c.result
    /\ last' = c.last

Init ==
    /\ parser = pg_build
    /\ tokens = <<>>
    /\ exhausted = FALSE
    /\ vocabulary \in {CoreKinds \cup g : g \in KindGroups}
    /\ lookahead = InitConfig.lookahead
    /\ symstack = InitConfig.symstack
    /\ statestack = InitConfig.statestack
    /\ status = InitConfig.status
    /\ result = InitConfig.result
    /\ last = InitConfig.last
    /\ FunIdle

\* lookahead = next(tokenizer): the next token, at the next column
NextToken ==
    /\ status = "parsing"
    /\ NextOp(cfg).op = "fetch"
    /\ ~exhausted
    /\ Len(tokens) < MaxTokens
    /\ \E k \in vocabulary :
          LET token == Token(k.type, k.value, 1, Len(tokens) + 1)
          IN  /\ tokens' = Append(tokens, token)
              /\ Become(fetch(cfg, token))
    /\ UNCHANGED <<parser, exhausted, vocabulary, funvars>>

\* StopIteration: the stream has ended
EndOfStream ==
    /\ status = "parsing"
    /\ NextOp(cfg).op = "fetch"
    /\ Become(fetch(cfg, EndToken))
    /\ exhausted' = TRUE
    /\ UNCHANGED <<parser, tokens, vocabulary, funvars>>

Shift ==
    /\ status = "parsing"
    /\ NextOp(cfg).op = "shift"
    /\ Become(shift(cfg, NextOp(cfg).q))
    /\ UNCHANGED <<parser, tokens, exhausted, vocabulary, funvars>>

\* the loop is about to reduce by a production whose function is fn
Reducing(fn) ==
    /\ status = "parsing"
    /\ NextOp(cfg).op = "reduce"
    /\ Productions[NextOp(cfg).q].fn = fn

Reduce ==
    /\ Become(reduce_production(cfg, NextOp(cfg).q))
    /\ UNCHANGED <<parser, tokens, exhausted, vocabulary, funvars>>

Reduce_main ==
    /\ Reducing("main")
    /\ Reduce

Reduce_main_empty ==
    /\ Reducing("main_empty")
    /\ Reduce

Reduce_paren ==
    /\ Reducing("paren")
    /\ Reduce

Reduce_empty_paren ==
    /\ Reducing("empty_paren")
    /\ Reduce

Reduce_list_contents ==
    /\ Reducing("list_contents")
    /\ Reduce

Reduce_list_contents_single ==
    /\ Reducing("list_contents_single")
    /\ Reduce

Reduce_list_contents_empty ==
    /\ Reducing("list_contents_empty")
    /\ Reduce

Reduce_discarded_list_contents ==
    /\ Reducing("discarded_list_contents")
    /\ Reduce

Reduce_term ==
    /\ Reducing("term")
    /\ Reduce

Reduce_term_discard ==
    /\ Reducing("term_discard")
    /\ Reduce

Reduce_term_quote ==
    /\ Reducing("term_quote")
    /\ Reduce

Reduce_term_quasiquote ==
    /\ Reducing("term_quasiquote")
    /\ Reduce

Reduce_term_unquote ==
    /\ Reducing("term_unquote")
    /\ Reduce

Reduce_term_unquote_splice ==
    /\ Reducing("term_unquote_splice")
    /\ Reduce

Reduce_term_hashstars ==
    /\ Reducing("term_hashstars")
    /\ Reduce

Reduce_hash_other ==
    /\ Reducing("hash_other")
    /\ Reduce

Reduce_t_set ==
    /\ Reducing("t_set")
    /\ Reduce

Reduce_empty_set ==
    /\ Reducing("empty_set")
    /\ Reduce

Reduce_t_dict ==
    /\ Reducing("t_dict")
    /\ Reduce

Reduce_empty_dict ==
    /\ Reducing("empty_dict")
    /\ Reduce

Reduce_t_list ==
    /\ Reducing("t_list")
    /\ Reduce

Reduce_t_empty_list ==
    /\ Reducing("t_empty_list")
    /\ Reduce

Reduce_t_string ==
    /\ Reducing("t_string")
    /\ Reduce

Reduce_t_partial_string ==
    /\ Reducing("t_partial_string")
    /\ Reduce

Reduce_t_bracket_string ==
    /\ Reducing("t_bracket_string")
    /\ Reduce

Reduce_t_identifier ==
    /\ Reducing("t_identifier")
    /\ Reduce

Accept ==
    /\ status = "parsing"
    /\ NextOp(cfg).op = "accept"
    /\ Become(accept(cfg))
    /\ UNCHANGED <<parser, tokens, exhausted, vocabulary, funvars>>

Error ==
    /\ status = "parsing"
    /\ NextOp(cfg).op = "error"
    /\ Become(error(cfg))
    /\ UNCHANGED <<parser, tokens, exhausted, vocabulary, funvars>>

Next ==
    \/ NextToken
    \/ EndOfStream
    \/ Shift
    \/ Reduce_main
    \/ Reduce_main_empty
    \/ Reduce_paren
    \/ Reduce_empty_paren
    \/ Reduce_list_contents
    \/ Reduce_list_contents_single
    \/ Reduce_list_contents_empty
    \/ Reduce_discarded_list_contents
    \/ Reduce_term
    \/ Reduce_term_discard
    \/ Reduce_term_quote
    \/ Reduce_term_quasiquote
    \/ Reduce_term_unquote
    \/ Reduce_term_unquote_splice
    \/ Reduce_term_hashstars
    \/ Reduce_hash_other
    \/ Reduce_t_set
    \/ Reduce_empty_set
    \/ Reduce_t_dict
    \/ Reduce_empty_dict
    \/ Reduce_t_list
    \/ Reduce_t_empty_list
    \/ Reduce_t_string
    \/ Reduce_t_partial_string
    \/ Reduce_t_bracket_string
    \/ Reduce_t_identifier
    \/ Accept
    \/ Error

Spec == Init /\ [][Next]_vars

----------------------------------------------------------------------------
(* The mangler and the identifier production run on their own.             *)

\* the texts the mangler is run on
MangleFragments == {<<"a">>, <<"-">>, <<"i", "s">>, <<"b", "a", "n", "g">>,
                    <<"*">>, <<"?">>, <<"!">>, <<"_">>}

FragmentTexts(F, n) ==
    {Concat(fs) : fs \in UNION {[1..k -> F] : k \in 0..n}}

InitMangle ==
    /\ input \in FragmentTexts(MangleFragments, MaxFrags)
    /\ output = <<>>
    /\ phase = "start"
    /\ ParserIdle

Mangle ==
    /\ phase = "start"
    /\ output' = hy_symbol_mangle(input)
    /\ phase' = "mangled"
    /\ UNCHANGED <<input, parservars>>

Unmangle ==
    /\ phase = "mangled"
    /\ output' = hy_symbol_unmangle(output)
    /\ phase' = "unmangled"
    /\ UNCHANGED <<input, parservars>>

NextMangle == Mangle \/ Unmangle

SpecMangle == InitMangle /\ [][NextMangle]_vars

\* the IDENTIFIER texts the identifier production is run on
IdentFragments == {<<"a">>, <<"-">>, <<"*">>, <<"?">>, <<"!">>, <<".">>,
                   <<"5">>, <<":">>, <<"j">>, <<"/">>}

InitIdent ==
    /\ input \in {Token("IDENTIFIER", t, 1, 3) :
                      t \in FragmentTexts(IdentFragments, MaxFrags) \ {<<>>}}
    /\ output = None
    /\ phase = "start"
    /\ ParserIdle

Identify ==
    /\ phase = "start"
    /\ output' = t_identifier(<<input>>)
    /\ phase' = "done"
    /\ UNCHANGED <<input, parservars>>

SpecIdent == InitIdent /\ [][Identify]_vars

----------------------------------------------------------------------------
(* The parenthesized-form production run on its own, on the contents the   *)
(* list_contents productions can hand it: any non-empty list of nodes,     *)
(* each with the span of the token it was read from.                       *)

ParenItems ==
    {HySymbol(<<"a">>), HySymbol(<<"b">>), HySymbol(<<".">>),
     HyString(<<".">>, NoBrackets)}

\* the k-th item of the contents, read from the one-column token after the
\* opening parenthesis and the items before it
Placed(node, k) ==
    [node EXCEPT !.start_line = 1, !.start_column = k + 1,
                 !.end_line = 1, !.end_column = k + 2]

ParenInputs ==
    {<<Token("LPAREN", <<"(">>, 1, 1),
       [k \in 1..Len(items) |-> Placed(items[k], k)],
       Token("RPAREN", <<")">>, 1, Len(items) + 2)>> :
         items \in UNION {[1..n -> ParenItems] : n \in 1..MaxItems}}

InitParen ==
    /\ input \in ParenInputs
    /\ output = None
    /\ phase = "start"
    /\ ParserIdle

CallParen ==
    /\ phase = "start"
    /\ output' = paren(input)
    /\ phase' = "done"
    /\ UNCHANGED <<input, parservars>>

SpecParen == InitParen /\ [][CallParen]_vars

----------------------------------------------------------------------------
(* Properties of the parser, checked under Spec.                           *)

\* how a call of parse ended: with the parsed terms, asking for more input,
\* or rejecting the input
Outcome(c) ==
    IF c.status = "returned" THEN "success"
    ELSE IF c.result.exc = "PrematureEndOfInput" THEN "incomplete"
    ELSE "malformed"

\* the input is written in parentheses, the identifier a and discard markers
PlainTokens(toks) ==
    \A k \in 1..Len(toks) :
        \/ toks[k].type \in {"LPAREN", "RPAREN", "DISCARD"}
        \/ toks[k].type = "IDENTIFIER" /\ toks[k].value = <<"a">>

RECURSIVE RefItems(_, _, _)
RECURSIVE RefTerm(_, _)
\* A reader of plain tokens by recursive descent.  RefTerm reads the term
\* at token i; RefItems reads the terms from token i up to the closing
\* parenthesis or the end, and keeps those no discard marker consumes:
\* pending is the number of markers read that have yet to consume a term.
RefTerm(toks, i) ==
    IF toks[i].type = "LPAREN"
    THEN LET r == RefItems(toks, i + 1, 0)
         IN  [node |-> paren(<<toks[i], r.items, toks[r.next]>>).value,
              next |-> r.next + 1]
    ELSE [node |-> t_identifier(<<toks[i]>>).value, next |-> i + 1]

RefItems(toks, i, pending) ==
    IF i > Len(toks) \/ toks[i].type = "RPAREN"
    THEN [items |-> <<>>, next |-> i]
    ELSE IF toks[i].type = "DISCARD"
    THEN RefItems(toks, i + 1, pending + 1)
    ELSE LET t == RefTerm(toks, i)
             r == RefItems(toks, t.next, IF pending > 0 THEN pending - 1 ELSE 0)
         IN  [items |-> IF pending > 0 THEN r.items ELSE <<t.node>> \o r.items,
              next |-> r.next]

\* C3: a discard marker and the term it consumes leave no element in the
\* sequence around them: when a plain input parses, the result is the
\* terms no marker consumes, in source order, at the top level and inside
\* every parenthesized form (so that (#_a #_b) is the empty Expression).
C3_DiscardedTermsVanish ==
    (status = "returned" /\ PlainTokens(tokens)) =>
        result = RefItems(tokens, 1, 0).items

\* ( #_ a #_ a ) has parsed to one empty Expression
C3_Witness ==
    /\ status = "returned"
    /\ [k \in 1..Len(tokens) |-> tokens[k].type] =
           <<"LPAREN", "DISCARD", "IDENTIFIER", "DISCARD", "IDENTIFIER",
             "RPAREN">>
    /\ Len(result) = 1
    /\ result[1].kind = "Expression"
    /\ result[1].items = <<>>

\* C4: when the error handler ends the parse on a token other than the end
\* of the stream, the error is a LexException with that token's line and
\* column whose message names the token's type; on the end of the stream
\* it is PrematureEndOfInput, and no parse that has reached the end of the
\* stream ends in a LexException; parsing zero tokens returns the empty
\* sequence.
C4_ErrorHandlerOutcome ==
    /\ (status = "raised" /\ ~last.ret.raised) =>
           IF lookahead.type = "$end"
           THEN result.exc = "PrematureEndOfInput"
           ELSE /\ lookahead = tokens[Len(tokens)]
                /\ result.exc = "LexException"
                /\ result.lineno = lookahead.lineno
                /\ result.colno = lookahead.colno
                /\ \E k \in 1..Len(result.message) :
                       result.message[k] = lookahead.type
    /\ (status = "raised" /\ exhausted) => result.exc = "PrematureEndOfInput"
    /\ (status # "parsing" /\ tokens = <<>>) =>
           status = "returned" /\ result = <<>>

\* a ) after a first token has been rejected where it stands
C4_Witness ==
    /\ status = "raised"
    /\ ~last.ret.raised
    /\ Len(tokens) >= 2
    /\ lookahead.type = "RPAREN"
    /\ result.colno = Len(tokens)

\* C5 as stated: whatever tokens come before a PARTIAL_STRING token, the
\* parse of the sequence ends in PrematureEndOfInput.
C5_Original ==
    \A k \in vocabulary :
        k.type = "PARTIAL_STRING" =>
            Outcome(parse(Append(tokens,
                Token(k.type, k.value, 1, Len(tokens) + 1)))) = "incomplete"

\* C5, amended: a parse that has read a PARTIAL_STRING token (no token
\* before it was rejected) ends in PrematureEndOfInput, never in a result
\* and never in a LexException.
C5_PartialStringReached ==
    (status # "parsing"
        /\ \E k \in 1..Len(tokens) : tokens[k].type = "PARTIAL_STRING") =>
        (status = "raised" /\ result.exc = "PrematureEndOfInput")

\* an unterminated string inside an open form has ended the parse
C5_Witness ==
    /\ status = "raised"
    /\ Len(tokens) >= 2
    /\ tokens[1].type = "LPAREN"
    /\ tokens[Len(tokens)].type = "PARTIAL_STRING"
    /\ last.fn = "t_partial_string"

\* the asterisks of a HASHSTARS marker after its leading "#"
NStars(marker) ==
    Cardinality({k \in 2..Len(marker.value) : marker.value[k] = "*"})

\* C6: the function of the production HASHSTARS term returns the Expression
\* (unpack_iterable x) for one asterisk and (unpack_mapping x) for two; for
\* any other count it raises a LexException at the marker's line and column,
\* which ends the parse with no Expression produced.
C6_HashStars ==
    last.fn = "term_hashstars" =>
        LET marker == last.p[1]
            x == last.p[2]
            n == NStars(marker)
        IN  /\ n = 1 =>
                /\ ~last.ret.raised
                /\ last.ret.value.kind = "Expression"
                /\ last.ret.value.items =
                       <<HySymbol(<<"u", "n", "p", "a", "c", "k", "_", "i", "t",
                                    "e", "r", "a", "b", "l", "e">>), x>>
            /\ n = 2 =>
                /\ ~last.ret.raised
                /\ last.ret.value.kind = "Expression"
                /\ last.ret.value.items =
                       <<HySymbol(<<"u", "n", "p", "a", "c", "k", "_", "m", "a",
                                    "p", "p", "i", "n", "g">>), x>>
            /\ n \notin {1, 2} =>
                /\ last.ret.raised
                /\ last.ret.value.exc = "LexException"
                /\ last.ret.value.lineno = marker.lineno
                /\ last.ret.value.colno = marker.colno
                /\ status = "raised"
                /\ result = last.ret.value

\* a marker of three asterisks, not the first token, has been rejected
C6_Witness ==
    /\ last.fn = "term_hashstars"
    /\ NStars(last.p[1]) = 3
    /\ last.p[1].colno >= 2
    /\ status = "raised"

\* C10: when a token sequence parses, the parse of each of its prefixes
\* ends with a result or in PrematureEndOfInput, never in a LexException.
C10_PrefixNeverMalformed ==
    status = "returned" =>
        \A k \in 0..Len(tokens) :
            Outcome(parse(SubSeq(tokens, 1, k))) # "malformed"

\* an input of three tokens or more has parsed, and a proper prefix of it
\* asks for more input
C10_Witness ==
    /\ status = "returned"
    /\ Len(tokens) >= 3
    /\ \E k \in 1..(Len(tokens) - 1) :
           Outcome(parse(SubSeq(tokens, 1, k))) = "incomplete"

----------------------------------------------------------------------------
(* Properties of the parenthesized-form production, checked under          *)
(* SpecParen.                                                              *)

\* the contents have the dotted-tail form: three items or more, the one
\* before the last a bare "."
DottedTail(cont) == Len(cont) >= 3 /\ IsBareDot(cont[Len(cont) - 1])

\* the positions, other than the separator's, of the bare "." symbols
OtherDots(cont) ==
    {k \in 1..Len(cont) : k # Len(cont) - 1 /\ IsBareDot(cont[k])}

\* node with the span from the opening to the closing parenthesis of p
Spanned(node, p) ==
    [node EXCEPT !.start_line = p[1].lineno, !.start_column = p[1].colno,
                 !.end_line = p[3].lineno, !.end_column = p[3].colno]

RECURSIVE ConsChain(_, _, _)
\* the pairs (h1 . (h2 . ( ... (hk . tail)))) for the heads h1 .. hk
ConsChain(heads, tail, p) ==
    IF Len(heads) = 1 THEN Spanned(HyCons(heads[1], tail), p)
    ELSE Spanned(HyCons(heads[1], ConsChain(Tail(heads), tail, p)), p)

\* C1: contents x1 .. xk . y with no other bare "." give the right-nested
\* chain of Cons pairs (x1 . (x2 . ( ... (xk . y)))); contents of the form
\* (a . b . c), with a second separator, raise a LexException.
C1_DottedTailNests ==
    (phase = "done" /\ DottedTail(input[2])) =>
        LET cont == input[2]
            n == Len(cont)
        IN  /\ OtherDots(cont) = {} =>
                   output = Return(ConsChain(SubSeq(cont, 1, n - 2), cont[n],
                                             input))
            /\ (n = 5 /\ OtherDots(cont) = {2}) =>
                   output.raised /\ output.value.exc = "LexException"

\* three heads and a tail have given three nested pairs
C1_Witness ==
    /\ phase = "done"
    /\ Len(input[2]) = 5
    /\ DottedTail(input[2])
    /\ OtherDots(input[2]) = {}
    /\ ~output.raised
    /\ output.value.kind = "Cons"
    /\ output.value.cdr.kind = "Cons"
    /\ output.value.cdr.cdr.kind = "Cons"
    /\ output.value.cdr.cdr.cdr = input[2][5]

\* C2 as stated: contents of the dotted-tail form are rejected exactly when
\* a bare "." stands at a position other than the separator's and other
\* than the first.
C2_Original ==
    (phase = "done" /\ DottedTail(input[2])) =>
        (output.raised <=> OtherDots(input[2]) \ {1} # {})

\* C2, amended: contents of the dotted-tail form are rejected, with a
\* LexException, exactly when a bare "." stands at a position other than
\* the separator's, the first position included; a string "." is no bare
\* ".".
C2_DottedTailRejects ==
    (phase = "done" /\ DottedTail(input[2])) =>
        /\ output.raised <=> OtherDots(input[2]) # {}
        /\ output.raised => output.value.exc = "LexException"

\* contents whose only other bare "." is the first item have been rejected
C2_Witness ==
    /\ phase = "done"
    /\ DottedTail(input[2])
    /\ OtherDots(input[2]) = {1}
    /\ output.raised

----------------------------------------------------------------------------
(* Properties of the identifier production, checked under SpecIdent.       *)

\* the production has returned a Symbol
GaveSymbol == phase = "done" /\ ~output.raised /\ output.value.kind = "Symbol"

\* C7 as stated: the name of a Symbol made from an IDENTIFIER token holds
\* no "-", unless the name is exactly "-".
C7_Original ==
    GaveSymbol =>
        (~contains(output.value.name, "-") \/ output.value.name = <<"-">>)

\* C7, amended: in the name of a Symbol made from an IDENTIFIER token, each
\* segment between dots holds no "-", unless that segment is exactly "-".
C7_SegmentsHyphenFree ==
    GaveSymbol =>
        LET segs == split(output.value.name, ".")
        IN  \A k \in 1..Len(segs) :
                ~contains(segs[k], "-") \/ segs[k] = <<"-">>

\* a dotted identifier with a hyphenated segment and a segment "-" has
\* become a Symbol
C7_Witness ==
    /\ GaveSymbol
    /\ input.value = <<"-", "a", ".", "-">>
    /\ output.value.name = <<"_", "a", ".", "-">>

\* the text before the first "." of the token's text is a number or a keyword
NumericPrefix ==
    /\ contains(input.value, ".")
    /\ symbol_like(split1(input.value, ".")[1]) # None

\* the production has raised a LexException at the token's position
RaisedAtToken ==
    /\ output.raised
    /\ output.value.exc = "LexException"
    /\ output.value.lineno = input.lineno
    /\ output.value.colno = input.colno

\* C8 as stated: an IDENTIFIER whose text holds a "." and whose part before
\* the first "." is a number or a keyword raises a LexException at the
\* token's position.
C8_Original == (phase = "done" /\ NumericPrefix) => RaisedAtToken

\* C8, amended: such an IDENTIFIER raises the LexException when its whole
\* text is not itself a number or a keyword; when it is (5.5, 5.j), the
\* production returns that number.
C8_AttributeOnNonName ==
    (phase = "done" /\ NumericPrefix) =>
        IF symbol_like(input.value) = None THEN RaisedAtToken
        ELSE output = set_boundaries(<<input>>, Return(symbol_like(input.value)))

\* 5.a has been rejected
C8_Witness ==
    /\ phase = "done"
    /\ input.value = <<"5", ".", "a">>
    /\ RaisedAtToken

----------------------------------------------------------------------------
(* Properties of the mangler and unmangler, checked under SpecMangle.      *)

\* x is made of lower-case letters and "-"
HyphenWord(x) ==
    \A k \in 1..Len(x) : x[k] = "-" \/ IndexIn(x[k], LowerChars) > 0

\* C9 as stated: for x made of lower-case letters and "-", other than "-",
\* unmangling the mangled x gives x.
C9_Original ==
    (phase = "unmangled" /\ HyphenWord(input) /\ input # <<"-">>) =>
        output = input

\* x starts with "is-" and goes on, or ends with "-bang" after something
PredicateLike(x) ==
    \/ startswith(x, <<"i", "s", "-">>) /\ Len(x) > 3
    \/ endswith(x, <<"-", "b", "a", "n", "g">>) /\ Len(x) > 5

\* C9, amended: for x made of lower-case letters and "-", other than "-",
\* that neither starts with "is-" followed by more nor ends with "-bang"
\* preceded by more, unmangling the mangled x gives x.
C9_RoundTrip ==
    (phase = "unmangled" /\ HyphenWord(input) /\ input # <<"-">>
        /\ ~PredicateLike(input)) =>
        output = input

\* a hyphenated word has come back from the two conversions
C9_Witness ==
    /\ phase = "unmangled"
    /\ input = <<"a", "-", "i", "s">>
    /\ output = input

====
